---- MODULE Spec2Model ----
(***************************************************************************)
(* Balance microservice: the deposit / withdraw handlers, the per-user     *)
(* Redis lock (withUserLock) and the transactions ledger.                  *)
(*                                                                         *)
(* Two builds of the handlers live in the repository:                      *)
(*   - the lock-aware handlers (v2.1: withUserLock, balance check),        *)
(*     modelled by Spec;                                                   *)
(*   - the handlers of main.go (plain INSERTs), modelled by SpecV1.        *)
(*                                                                         *)
(* Amounts of a request are counted in thousandths of the currency unit    *)
(* (the JSON number is a float64); amounts of the ledger are counted in    *)
(* hundredths, the scale of the column DECIMAL(10, 2).                     *)
(* Time is counted in ticks; the lock TTL and the request timeout are both *)
(* 5 s in the code, TicksPerTTL ticks here. A ctx runs from the start of   *)
(* its handler, a key's TTL from the moment the key is set. A query or an  *)
(* INSERT is one step: it takes effect and returns nil, or fails and       *)
(* changes nothing.                                                        *)
(***************************************************************************)
EXTENDS Integers, Sequences, FiniteSets

VARIABLES
    redisEnabled,   \* the global redisEnabled (REDIS_ENABLED at startup)
    locker,         \* TRUE iff the global locker is not nil
    redisUp,        \* the Redis backend answers
    lock,           \* the Redis keys lock:user:<id>: holder token and TTL left
    ledger,         \* the rows of table transactions, in id order
    req             \* the requests: position, inputs, ctx, locals, outcome

vars == <<redisEnabled, locker, redisUp, lock, ledger, req>>

\* ------------------------------------------------------------------ bounds
MaxReq == 2
MaxUser == 2
TicksPerTTL == 2

Reqs == 1..MaxReq
Users == 1..MaxUser

\* Request amounts, in thousandths: -0.010, 0, 0.004, 0.010.
Amounts == {0 - 10, 0, 4, 10}

\* ttl := 5 * time.Second
TTL == TicksPerTTL
\* A request timeout one tick longer than the TTL of the key.
LongTimeout == TicksPerTTL + 1
\* context.WithTimeout(r.Context(), 5*time.Second)
Timeout == TicksPerTTL

NoLock == [holder |-> 0, ttl |-> 0]

\* A request that has not arrived. The fields: the handler's position (pc), the
\* decoded Transaction (kind of the endpoint, user, amount), the time left to
\* the ctx deadline, the local balance, the error the handler ends with
\* ("nil": none), and the calls made so far: locker.Obtain (nobtain), whether
\* it returned a lock (got), db.QueryRowContext (nread), db.ExecContext
\* (nexec), lock.Release (nrel), with what lock.Release returned (rel: "ok",
\* or the error that is logged) and the holder of the key it found (relsaw).
Idle == [pc |-> "idle", kind |-> "-", user |-> 0, amount |-> 0, left |-> 0,
         balance |-> 0, err |-> "-", nobtain |-> 0, got |-> FALSE,
         nread |-> 0, nexec |-> 0, nrel |-> 0, rel |-> "-", relsaw |-> 0]

\* ------------------------------------------------------------ the ledger
\* amount DECIMAL(10, 2): the float64 parameter is rounded to two decimals
\* (half away from zero) when the row is stored. a is in thousandths, the
\* result in hundredths.
Round2(a) == (a + 5) \div 10

\* INSERT INTO transactions (user_id, amount, operation_type); by is the
\* request that inserted the row (history only, not a column).
Entry(r, u, a, k) == [user |-> u, amount |-> Round2(a), kind |-> k, by |-> r]

\* The aggregation with the sign of WITHDRAW lost.
RECURSIVE SumUnsigned(_, _)
SumUnsigned(rows, u) ==
    IF rows = <<>> THEN 0
    ELSE LET e == rows[Len(rows)]
             rest == SubSeq(rows, 1, Len(rows) - 1)
         IN  SumUnsigned(rest, u) + (IF e.user # u THEN 0 ELSE e.amount)

\* The sum without WHERE user_id = $1: the rows of every user count.
RECURSIVE SumAllUsers(_, _)
SumAllUsers(rows, u) ==
    IF rows = <<>> THEN 0
    ELSE LET e == rows[Len(rows)]
             rest == SubSeq(rows, 1, Len(rows) - 1)
         IN  SumAllUsers(rest, u) +
             (IF e.kind = "DEPOSIT" THEN e.amount ELSE 0 - e.amount)

RECURSIVE SumBalance(_, _)
SumBalance(rows, u) ==
    IF rows = <<>> THEN 0
    ELSE LET e == rows[Len(rows)]
             rest == SubSeq(rows, 1, Len(rows) - 1)
         IN  SumBalance(rest, u) +
             (IF e.user # u THEN 0
              ELSE IF e.kind = "DEPOSIT" THEN e.amount
              ELSE IF e.kind = "WITHDRAW" THEN 0 - e.amount
              ELSE 0)

\* SELECT COALESCE(SUM(CASE ... END), 0) FROM transactions WHERE user_id = $1
Balance(u) == SumBalance(ledger, u)

\* ---------------------------------------------------------- the handlers
\* The validation with the comparison off by one: 0 passes.
AcceptsZero(a) == a >= 0
\* if tx.Amount <= 0 { http.Error(..., 400); return }
Valid(a) == a > 0

\* The balance check with the comparison turned round.
InsufficientReversed(bal, a) == bal * 10 > a
\* The balance check with <= for <: a withdrawal of the whole balance fails.
InsufficientOrEqual(bal, a) == bal * 10 <= a
\* if balance < tx.Amount (balance in hundredths, a in thousandths)
Insufficient(bal, a) == bal * 10 < a

\* ctx.Done() is closed once the request's 5 s have passed
CtxDone(r) == req[r].left = 0

\* A SET without NX: it succeeds whether or not the key exists.
KeyAlwaysFree(u) == TRUE
\* SET key token NX PX ttl succeeds iff the key does not exist
\* One key for all users: free only when no user's key is set.
KeyFreeGlobal(u) == \A v \in Users : lock[v] = NoLock

KeyFree(u) == lock[u] = NoLock

\* Requests are numbered in the order they arrive.
CanStart(r) ==
    /\ req[r].pc = "idle"
    /\ \A q \in DOMAIN req : q < r => req[q].pc # "idle"

Finish(r, e) == [req EXCEPT ![r].pc = "done", ![r].err = e, ![r].left = 0]

\* A head of withUserLock that looks at the locker before it looks at
\* redisEnabled.
HandlerLockerFirst(r, k, u, a) ==
    /\ CanStart(r)
    /\ LET started == [Idle EXCEPT !.kind = k, !.user = u, !.amount = a]
       IN  req' = [req EXCEPT ![r] =
             IF ~Valid(a)
               THEN [started EXCEPT !.pc = "done", !.err = "validation"]
             ELSE IF ~locker
               THEN [started EXCEPT !.pc = "done", !.err = "locker_nil"]
             ELSE IF ~redisEnabled
               THEN [started EXCEPT !.left = Timeout,
                        !.pc = IF k = "WITHDRAW" THEN "query" ELSE "insert"]
             ELSE [started EXCEPT !.left = Timeout, !.pc = "obtain"]]
    /\ UNCHANGED <<redisEnabled, locker, redisUp, lock, ledger>>

\* depositHandler / withdrawHandler up to the first call that blocks:
\* validation, the ctx with its timeout, and the head of withUserLock.
Handler(r, k, u, a) ==
    /\ CanStart(r)
    /\ LET started == [Idle EXCEPT !.kind = k, !.user = u, !.amount = a]
       IN  req' = [req EXCEPT ![r] =
             IF ~Valid(a)
               THEN [started EXCEPT !.pc = "done", !.err = "validation"]
             ELSE IF ~redisEnabled
               THEN [started EXCEPT !.left = Timeout,
                        !.pc = IF k = "WITHDRAW" THEN "query" ELSE "insert"]
             ELSE IF ~locker
               THEN [started EXCEPT !.pc = "done", !.err = "locker_nil"]
             ELSE [started EXCEPT !.left = Timeout, !.pc = "obtain"]]
    /\ UNCHANGED <<redisEnabled, locker, redisUp, lock, ledger>>

depositHandler(r, u, a) == Handler(r, "DEPOSIT", u, a)

withdrawHandler(r, u, a) == Handler(r, "WITHDRAW", u, a)

\* A return of fn(ctx) that goes straight to the handler's answer.
ReturnSkipsRelease(r, e) == Finish(r, e)

\* The return of fn(ctx) with error e ("nil": none): withUserLock's deferred
\* release runs next when a lock was obtained, else the handler answers.
Return(r, e) ==
    IF redisEnabled
      THEN [req EXCEPT ![r].pc = "release", ![r].err = e]
      ELSE Finish(r, e)

\* Obtain that runs fn without a lock when Redis does not answer.
ObtainFallback(r) ==
    /\ req[r].pc \in {"obtain", "backoff"}
    /\ ~CtxDone(r)
    /\ LET u == req[r].user
           body == IF req[r].kind = "WITHDRAW" THEN "query" ELSE "insert"
       IN  IF ~redisUp
             THEN /\ req' = [req EXCEPT ![r].pc = body, ![r].nobtain = 1]
                  /\ lock' = lock
           ELSE IF lock[u] = NoLock
             THEN /\ lock' = [lock EXCEPT ![u] = [holder |-> r, ttl |-> TTL]]
                  /\ req' = [req EXCEPT ![r].got = TRUE, ![r].pc = body,
                                        ![r].nobtain = 1]
           ELSE /\ req' = [req EXCEPT ![r].pc = "backoff", ![r].nobtain = 1]
                /\ lock' = lock
    /\ UNCHANGED <<redisEnabled, locker, redisUp, ledger>>

\* locker.Obtain(ctx, key, ttl, LinearBackoff(100ms)): one attempt to set the
\* key while ctx is alive, the first one or a retry after a backoff.
Obtain(r) ==
    /\ req[r].pc \in {"obtain", "backoff"}
    /\ ~CtxDone(r)
    /\ LET u == req[r].user
       IN  IF ~redisUp
             THEN /\ req' = [Finish(r, "obtain_failed") EXCEPT ![r].nobtain = 1]
                  /\ lock' = lock
           ELSE IF KeyFree(u)
             THEN /\ lock' = [lock EXCEPT ![u] = [holder |-> r, ttl |-> TTL]]
                  /\ req' = [req EXCEPT ![r].got = TRUE, ![r].nobtain = 1,
                        ![r].pc = IF req[r].kind = "WITHDRAW" THEN "query"
                                  ELSE "insert"]
           ELSE /\ req' = [req EXCEPT ![r].pc = "backoff", ![r].nobtain = 1]
                /\ lock' = lock
    /\ UNCHANGED <<redisEnabled, locker, redisUp, ledger>>

\* An Obtain whose error is met only after the release was deferred: the
\* failed call goes on to release a lock it does not have.
ObtainCtxDoneReleases(r) ==
    /\ req[r].pc \in {"obtain", "backoff"}
    /\ CtxDone(r)
    /\ \E e \in {"not_obtained", "obtain_failed"} :
          /\ req[r].pc = "obtain" => e = "obtain_failed"
          /\ req' = [req EXCEPT ![r].pc = "release", ![r].err = e,
                                ![r].nobtain = 1]
    /\ UNCHANGED <<redisEnabled, locker, redisUp, lock, ledger>>

\* An Obtain that takes the error of an attempt on a finished ctx for "not
\* obtained" and keeps waiting for its next retry.
ObtainRetriesForever(r) ==
    /\ req[r].pc \in {"obtain", "backoff"}
    /\ CtxDone(r)
    /\ req' = [req EXCEPT ![r].pc = "backoff", ![r].nobtain = 1]
    /\ UNCHANGED <<redisEnabled, locker, redisUp, lock, ledger>>

\* locker.Obtain once ctx is done: the first attempt fails with the ctx error
\* (failed to obtain lock); a waiting Obtain gives up with ErrNotObtained
\* (could not obtain lock), or, when the ticker wins the select, tries once
\* more and fails with the ctx error.
ObtainCtxDone(r) ==
    /\ req[r].pc \in {"obtain", "backoff"}
    /\ CtxDone(r)
    /\ \E e \in {"not_obtained", "obtain_failed"} :
          /\ req[r].pc = "obtain" => e = "obtain_failed"
          /\ req' = [Finish(r, e) EXCEPT ![r].nobtain = 1]
    /\ UNCHANGED <<redisEnabled, locker, redisUp, lock, ledger>>

\* withdrawHandler's fn: the balance query and the check of the amount.
QueryBalance(r) ==
    /\ req[r].pc = "query"
    /\ LET u == req[r].user
       IN  \E dbok \in BOOLEAN :
             req' = IF CtxDone(r) \/ ~dbok
                      THEN [Return(r, "get_balance") EXCEPT ![r].nread = 1]
                    ELSE IF Insufficient(Balance(u), req[r].amount)
                      THEN [Return(r, "insufficient") EXCEPT
                              ![r].nread = 1, ![r].balance = Balance(u)]
                    ELSE [req EXCEPT ![r].nread = 1,
                                     ![r].balance = Balance(u),
                                     ![r].pc = "insert"]
    /\ UNCHANGED <<redisEnabled, locker, redisUp, lock, ledger>>

\* A write that keeps one row and puts the new entry in its place.
UpsertRow(rows, e) ==
    IF rows = <<>> THEN <<e>> ELSE [rows EXCEPT ![Len(rows)] = e]

\* INSERT INTO transactions: one new row, the rows already there untouched.
InsertRow(rows, e) == Append(rows, e)

\* The INSERT of depositHandler's and of withdrawHandler's fn, and fn's return.
Insert(r) ==
    /\ req[r].pc = "insert"
    /\ \E dbok \in BOOLEAN :
          IF CtxDone(r) \/ ~dbok
            THEN /\ req' = [Return(r, IF req[r].kind = "DEPOSIT"
                                        THEN "db_deposit"
                                        ELSE "db_withdraw")
                             EXCEPT ![r].nexec = 1]
                 /\ ledger' = ledger
            ELSE /\ req' = [Return(r, "nil") EXCEPT ![r].nexec = 1]
                 /\ ledger' = InsertRow(ledger, Entry(r, req[r].user,
                                          req[r].amount, req[r].kind))
    /\ UNCHANGED <<redisEnabled, locker, redisUp, lock>>

\* What lock.Release(ctx) returns: the ctx error once ctx is done, the
\* connection error when Redis does not answer, ErrLockNotHeld when the key
\* no longer holds this lock's token, else nil.
ReleaseResult(r) ==
    IF CtxDone(r) THEN "ctx"
    ELSE IF ~redisUp THEN "redis"
    ELSE IF lock[req[r].user].holder # r THEN "not_held"
    ELSE "ok"

\* A release that deletes the key whatever token it holds, on a ctx of its own.
ReleaseAnyToken(r) ==
    /\ req[r].pc = "release"
    /\ lock' = [lock EXCEPT ![req[r].user] = NoLock]
    /\ req' = [req EXCEPT ![r].pc = "done", ![r].left = 0, ![r].nrel = 1,
                          ![r].rel = "ok",
                          ![r].relsaw = lock[req[r].user].holder]
    /\ UNCHANGED <<redisEnabled, locker, redisUp, ledger>>

\* A release whose error replaces the error of fn.
ReleaseErrorReturned(r) ==
    /\ req[r].pc = "release"
    /\ LET u == req[r].user
       IN  lock' = IF ReleaseResult(r) = "ok"
                     THEN [lock EXCEPT ![u] = NoLock]
                     ELSE lock
    /\ req' = [req EXCEPT ![r].pc = "done", ![r].left = 0, ![r].nrel = 1,
                          ![r].rel = ReleaseResult(r),
                          ![r].relsaw = lock[req[r].user].holder,
                          ![r].err = IF ReleaseResult(r) = "ok" THEN @
                                     ELSE "release_failed"]
    /\ UNCHANGED <<redisEnabled, locker, redisUp, ledger>>

\* The deferred lock.Release(ctx) and the handler's answer. The release
\* script deletes the key only if it still holds this lock's token; an error
\* (ctx done, Redis down, lock not held) is logged and dropped.
Release(r) ==
    /\ req[r].pc = "release"
    /\ LET u == req[r].user
       IN  lock' = IF ReleaseResult(r) = "ok"
                     THEN [lock EXCEPT ![u] = NoLock]
                     ELSE lock
    /\ req' = [req EXCEPT ![r].pc = "done", ![r].left = 0, ![r].nrel = 1,
                          ![r].rel = ReleaseResult(r),
                          ![r].relsaw = lock[req[r].user].holder]
    /\ UNCHANGED <<redisEnabled, locker, redisUp, ledger>>

\* The error kind of the specification that an error of withUserLock or of
\* a body stands for.
ErrorKind(e) ==
    CASE e = "validation" -> "ValidationError"
      [] e = "insufficient" -> "InsufficientFunds"
      [] e = "not_obtained" -> "LockContention"
      [] e \in {"obtain_failed", "locker_nil"} -> "LockBackendUnavailable"
      [] e \in {"get_balance", "db_deposit", "db_withdraw"} -> "StorageError"
      [] OTHER -> "-"

\* What the handler writes to the client of a call that has returned: the
\* status code and the text. depositHandler answers every error of
\* withUserLock with one fixed text, withdrawHandler with err.Error().
Response(r) ==
    IF req[r].err = "nil" THEN [code |-> 200, text |-> "success"]
    ELSE IF req[r].err = "validation"
      THEN [code |-> 400, text |-> "Amount must be positive"]
    ELSE IF req[r].kind = "DEPOSIT"
      THEN [code |-> 409, text |-> "Conflict or database error"]
    ELSE [code |-> 409, text |-> req[r].err]

Active(r) == req[r].pc \notin {"idle", "done"}

\* Time for keys that were set without an expiry: only the ctx's run down.
TickNoExpiry ==
    /\ \/ \E r \in DOMAIN req : Active(r) /\ req[r].left > 0
       \/ \E u \in Users : lock[u] # NoLock
    /\ req' = [r \in DOMAIN req |->
                IF Active(r) /\ req[r].left > 0
                  THEN [req[r] EXCEPT !.left = @ - 1]
                  ELSE req[r]]
    /\ UNCHANGED <<redisEnabled, locker, redisUp, lock, ledger>>

\* One tick of time: every running ctx and every key's TTL lose one tick; a
\* key whose TTL is over is gone.
Tick ==
    /\ \/ \E r \in DOMAIN req : Active(r) /\ req[r].left > 0
       \/ \E u \in Users : lock[u] # NoLock
    /\ req' = [r \in DOMAIN req |->
                IF Active(r) /\ req[r].left > 0
                  THEN [req[r] EXCEPT !.left = @ - 1]
                  ELSE req[r]]
    /\ lock' = [u \in Users |->
                 IF lock[u] = NoLock \/ lock[u].ttl = 1
                   THEN NoLock
                   ELSE [lock[u] EXCEPT !.ttl = @ - 1]]
    /\ UNCHANGED <<redisEnabled, locker, redisUp, ledger>>

\* The Redis backend becomes unreachable, and reachable again.
RedisFail ==
    /\ redisEnabled /\ redisUp
    /\ redisUp' = FALSE
    /\ UNCHANGED <<redisEnabled, locker, lock, ledger, req>>

RedisRecover ==
    /\ redisEnabled /\ ~redisUp
    /\ redisUp' = TRUE
    /\ UNCHANGED <<redisEnabled, locker, lock, ledger, req>>

\* ------------------------------------------------- main.go's handlers
\* main.go's depositHandler and withdrawHandler: the validation, then one
\* db.Exec INSERT, with no ctx, no lock and no balance query.
HandlerV1(r, k, u, a) ==
    /\ CanStart(r)
    /\ LET started == [Idle EXCEPT !.kind = k, !.user = u, !.amount = a,
                                   !.pc = "done"]
       IN  IF ~Valid(a)
             THEN /\ req' = [req EXCEPT ![r] =
                                [started EXCEPT !.err = "validation"]]
                  /\ ledger' = ledger
             ELSE \E dbok \in BOOLEAN :
                    IF dbok
                      THEN /\ req' = [req EXCEPT ![r] =
                                  [started EXCEPT !.err = "nil", !.nexec = 1]]
                           /\ ledger' = Append(ledger, Entry(r, u, a, k))
                      ELSE /\ req' = [req EXCEPT ![r] =
                                  [started EXCEPT !.err = "database",
                                                  !.nexec = 1]]
                           /\ ledger' = ledger
    /\ UNCHANGED <<redisEnabled, locker, redisUp, lock>>

depositHandlerV1(r, u, a) == HandlerV1(r, "DEPOSIT", u, a)

withdrawHandlerV1(r, u, a) == HandlerV1(r, "WITHDRAW", u, a)

\* ------------------------------------------------------- specifications
\* The table when the service starts: empty, or holding an earlier deposit
\* of 0.01 to user 1.
InitLedgers == {<<>>, <<[user |-> 1, amount |-> 1, kind |-> "DEPOSIT", by |-> 0]>>}

Init ==
    /\ redisEnabled \in BOOLEAN
    /\ locker = redisEnabled
    /\ redisUp = TRUE
    /\ lock = [u \in Users |-> NoLock]
    /\ ledger \in InitLedgers
    /\ req = [r \in Reqs |-> Idle]

\* The steps of the requests in flight and of their environment.
Run ==
    \/ \E r \in DOMAIN req : Obtain(r)
    \/ \E r \in DOMAIN req : ObtainCtxDone(r)
    \/ \E r \in DOMAIN req : QueryBalance(r)
    \/ \E r \in DOMAIN req : Insert(r)
    \/ \E r \in DOMAIN req : Release(r)
    \/ Tick
    \/ RedisFail
    \/ RedisRecover

Next ==
    \/ \E r \in Reqs, u \in Users, a \in Amounts : depositHandler(r, u, a)
    \/ \E r \in Reqs, u \in Users, a \in Amounts : withdrawHandler(r, u, a)
    \/ Run

\* The lock-aware service.
Spec == Init /\ [][Next]_vars

\* The service with time that keeps passing: Redis' clock and the ctx timers
\* run whatever the requests do. No request is required to take its next
\* step, so a handler may stall for good or die between any two steps.
SpecLive == Spec /\ WF_vars(Tick)

\* The next step of the handler of request r, whichever it is.
Step(r) ==
    Obtain(r) \/ ObtainCtxDone(r) \/ QueryBalance(r) \/ Insert(r) \/ Release(r)

\* The service with time that passes and handlers that keep running: every
\* handler is a goroutine of its own that the runtime keeps scheduling, and
\* every call it waits in (Obtain, the query, the INSERT, Release) is made
\* with the request's ctx and returns when the ctx is done at the latest.
SpecFair == SpecLive /\ \A r \in Reqs : WF_vars(Step(r))

\* The service of main.go: no Redis, every request is one handler call.
InitV1 ==
    /\ redisEnabled = FALSE
    /\ locker = FALSE
    /\ redisUp = TRUE
    /\ lock = [u \in Users |-> NoLock]
    /\ ledger \in InitLedgers
    /\ req = [r \in Reqs |-> Idle]

NextV1 ==
    \/ \E r \in Reqs, u \in Users, a \in Amounts : depositHandlerV1(r, u, a)
    \/ \E r \in Reqs, u \in Users, a \in Amounts : withdrawHandlerV1(r, u, a)

SpecV1 == InitV1 /\ [][NextV1]_vars

\* Contention: MaxReq + 1 concurrent Withdraw calls of one amount for user 1,
\* whose balance starts at 0.01, 0.02 or 100.00; the amount is 0.01 or 100.00.
StartBalances == {1, 2, 10000}
WithdrawAmounts == {10, 100000}

InitW ==
    /\ redisEnabled \in BOOLEAN
    /\ locker = redisEnabled
    /\ redisUp = TRUE
    /\ lock = [u \in Users |-> NoLock]
    /\ \E b \in StartBalances :
          ledger = <<[user |-> 1, amount |-> b, kind |-> "DEPOSIT", by |-> 0]>>
    /\ req = [r \in 1..(MaxReq + 1) |-> Idle]

NextW ==
    \/ \E r \in DOMAIN req, a \in WithdrawAmounts :
          /\ r > 1 => a = req[1].amount
          /\ withdrawHandler(r, 1, a)
    \/ Run

SpecW == InitW /\ [][NextW]_vars
\* ------------------------------------------------------------ properties
Started(r) == req[r].pc # "idle"
Done(r) == req[r].pc = "done"
\* The handler answered 200.
Succeeded(r) == Done(r) /\ req[r].err = "nil"
Quiescent == \A r \in DOMAIN req : req[r].pc \in {"idle", "done"}
AllDone == \A r \in DOMAIN req : Done(r)

\* The rows request r inserted.
RowsBy(r) == {i \in 1..Len(ledger) : ledger[i].by = r}

\* The sum of the request amounts (thousandths) of a set of requests.
RECURSIVE SumAmounts(_)
SumAmounts(S) ==
    IF S = {} THEN 0
    ELSE LET r == CHOOSE x \in S : TRUE
         IN  req[r].amount + SumAmounts(S \ {r})

\* The balance of u before any request (the rows the table started with).
StartBalance(u) == SumBalance(SelectSeq(ledger, LAMBDA e : e.by = 0), u)

\* The invocations inside acquire -> body -> release.
InCriticalSection(r) ==
    req[r].got /\ req[r].pc \in {"query", "insert", "release"}

\* C1: after any sequence of Deposit and Withdraw operations the service
\* admits, the derived balance of every user is >= 0. Stated of main.go's
\* service (SpecV1), whose withdrawHandler inserts without a balance check.
C1_BalanceNeverNegative == \A u \in Users : Balance(u) >= 0

\* C2: with the distributed lock, no two critical sections (acquire -> body
\* -> release) of the same user overlap: at every moment at most one
\* invocation is inside a guarded body for a given user.
C2_NoOverlap ==
    redisEnabled =>
      \A r1, r2 \in DOMAIN req :
        (r1 # r2 /\ InCriticalSection(r1) /\ InCriticalSection(r2))
          => req[r1].user # req[r2].user

\* C3 (SpecW: concurrent Withdraw calls of one amount A for user 1, start
\* balance B): the number of calls that succeeded never exceeds floor(B/A)
\* and the balance is >= 0.
NoOverdraft ==
    Started(1) =>
      /\ Cardinality({r \in DOMAIN req : Succeeded(r)})
           <= (StartBalance(1) * 10) \div req[1].amount
      /\ Balance(1) >= 0

Hundred ==
    /\ StartBalance(1) = 10000
    /\ \A r \in DOMAIN req : Started(r) => req[r].amount = 100000

\* C4 as claimed (SpecW): with the lock enabled, once all N calls have
\* returned, exactly 1 has succeeded, the other N-1 have failed with
\* InsufficientFunds, and the balance is 0.
C4_Original ==
    (redisEnabled /\ Hundred /\ AllDone) =>
      /\ Cardinality({r \in DOMAIN req : Succeeded(r)}) = 1
      /\ \A r \in DOMAIN req : ~Succeeded(r) => req[r].err = "insufficient"
      /\ Balance(1) = 0

\* C4 as amended: once all N calls have returned, at most 1 has succeeded;
\* every other call has failed with InsufficientFunds, a lock error or a
\* storage error; the balance is 0 if one call succeeded and 100 if none did;
\* and if no call failed with a lock or storage error, exactly 1 succeeded.
C4_AtMostOne ==
    (redisEnabled /\ Hundred /\ AllDone) =>
      LET won == {r \in DOMAIN req : Succeeded(r)}
      IN  /\ Cardinality(won) <= 1
          /\ \A r \in DOMAIN req \ won :
               req[r].err \in {"insufficient", "not_obtained", "obtain_failed",
                               "get_balance", "db_withdraw"}
          /\ Balance(1) = IF won = {} THEN 10000 ELSE 0
          /\ (\A r \in DOMAIN req \ won : req[r].err = "insufficient")
               => Cardinality(won) = 1

\* C4's case: all calls returned, one succeeded, the others were refused for
\* insufficient funds.
C4_Witness ==
    /\ redisEnabled /\ Hundred /\ AllDone
    /\ Cardinality({r \in DOMAIN req : Succeeded(r)}) = 1
    /\ \A r \in DOMAIN req : ~Succeeded(r) => req[r].err = "insufficient"

\* C5 (SpecW): with locking disabled no call ever waits for or holds a lock,
\* and two Withdraw(1, 100) calls that both read balance 100 and both
\* succeeded (no third one did) leave the balance at -100.
C5_UnsynchronizedRace ==
    (~redisEnabled /\ Hundred) =>
      /\ \A r \in DOMAIN req :
           ~req[r].got /\ req[r].pc \notin {"obtain", "backoff", "release"}
      /\ \A u \in Users : lock[u] = NoLock
      /\ \A r1, r2 \in DOMAIN req :
           ( /\ r1 # r2 /\ Succeeded(r1) /\ Succeeded(r2)
             /\ req[r1].balance = 10000 /\ req[r2].balance = 10000
             /\ \A r3 \in DOMAIN req \ {r1, r2} : RowsBy(r3) = {} )
             => Balance(1) = 0 - 10000

\* C5's case: the race has happened.
C5_Witness ==
    /\ ~redisEnabled /\ Hundred
    /\ \E r1, r2 \in DOMAIN req :
         /\ r1 # r2 /\ Succeeded(r1) /\ Succeeded(r2)
         /\ req[r1].balance = 10000 /\ req[r2].balance = 10000
    /\ Balance(1) = 0 - 10000

\* C6: once every call has returned, the balance of a user equals its start
\* balance plus the amounts of the deposits that returned success minus the
\* amounts of the withdrawals that returned success (in thousandths).
C6_Conservation ==
    Quiescent =>
      \A u \in Users :
        Balance(u) * 10 =
          StartBalance(u) * 10
          + SumAmounts({r \in DOMAIN req : Succeeded(r) /\ req[r].user = u
                                           /\ req[r].kind = "DEPOSIT"})
          - SumAmounts({r \in DOMAIN req : Succeeded(r) /\ req[r].user = u
                                           /\ req[r].kind = "WITHDRAW"})

\* C7: a Deposit or Withdraw whose amount is <= 0 fails with the validation
\* error, in either lock mode, without calling Obtain, without a balance
\* query, without an INSERT and without a row in the ledger.
C7_ValidationNoEffect ==
    \A r \in DOMAIN req :
      (Started(r) /\ req[r].amount <= 0) =>
        /\ Done(r) /\ req[r].err = "validation"
        /\ req[r].nobtain = 0 /\ ~req[r].got
        /\ req[r].nread = 0 /\ req[r].nexec = 0 /\ req[r].nrel = 0
        /\ RowsBy(r) = {}

\* C7's case: a call with amount 0 was answered while the lock is enabled and
\* another call holds the user's key.
C7_Witness ==
    \E r, q \in DOMAIN req :
      /\ redisEnabled /\ Done(r) /\ req[r].amount <= 0
      /\ lock[req[r].user].holder = q /\ q # r

\* C8: a Withdraw whose amount is greater than the user's balance appends no
\* row: every WITHDRAW row was appended when the balance of the rows before
\* it covered the amount of its request. Stated of main.go's service (SpecV1).
C8_NoRowPastBalance ==
    \A i \in 1..Len(ledger) :
      (ledger[i].kind = "WITHDRAW" /\ ledger[i].by # 0) =>
        ~Insufficient(SumBalance(SubSeq(ledger, 1, i - 1), ledger[i].user),
                      req[ledger[i].by].amount)

\* C9: with the distributed lock and Redis reachable, the lock is released on
\* every exit path before the call returns: the step in which withUserLock
\* returns leaves the user's key free of the caller's token, so that the next
\* Obtain for the key succeeds at once, also after a storage error caused by
\* the request deadline.
C9_ReleasedOnReturn ==
    [][\A r \in DOMAIN req :
         (req[r].pc = "release" /\ req'[r].pc = "done" /\ redisUp)
           => lock'[req[r].user].holder # r]_vars

\* C10: with the lock enabled, an Obtain attempted while Redis is unreachable
\* (or a nil locker) ends the call with the lock-backend error, and a call
\* that ended so has run no balance query and no INSERT and holds no lock.
C10_NoFallback ==
    [][\A r \in DOMAIN req :
         /\ ( /\ req[r].pc \in {"obtain", "backoff"} /\ ~redisUp
              /\ ~CtxDone(r) /\ req'[r].pc # req[r].pc )
              => /\ req'[r].pc = "done" /\ req'[r].err = "obtain_failed"
                 /\ ledger' = ledger
         /\ (req'[r].pc = "done" /\ req'[r].err \in {"obtain_failed", "locker_nil"})
              => /\ req'[r].nread = 0 /\ req'[r].nexec = 0 /\ ~req'[r].got
                 /\ RowsBy(r)' = {}]_vars

\* C10's case: a call found Redis unreachable and was refused.
C10_Witness ==
    \E r \in DOMAIN req :
      redisEnabled /\ ~redisUp /\ Done(r) /\ req[r].err = "obtain_failed"

\* C17: the ledger is append-only: every step either leaves the table as it
\* is or adds exactly one row at its end; no row already written is changed
\* or removed.
C17_AppendOnly ==
    [][\/ ledger' = ledger
       \/ /\ Len(ledger') = Len(ledger) + 1
          /\ SubSeq(ledger', 1, Len(ledger)) = ledger]_vars

\* C17's case: two requests have each written their row after the row the
\* table started with.
C17_Witness ==
    /\ Len(ledger) >= 3
    /\ ledger[1].by = 0
    /\ \E r, q \in DOMAIN req : r # q /\ RowsBy(r) # {} /\ RowsBy(q) # {}

\* C16: a failure of the lock release never changes the result of the
\* operation: the step in which withUserLock runs the deferred release and
\* returns hands back the error (or nil) that the guarded body returned, and
\* touches no row, whether the release succeeded or failed.
C16_ReleaseKeepsOutcome ==
    [][\A r \in DOMAIN req :
         (req[r].pc = "release" /\ req'[r].pc = "done")
           => /\ req'[r].err = req[r].err
              /\ ledger' = ledger]_vars

\* C16's case: a body succeeded and wrote its row, the release failed, and
\* the call still returned success.
C16_Witness ==
    \E r \in DOMAIN req :
      /\ Done(r) /\ req[r].got /\ req[r].nrel = 1
      /\ req[r].rel \in {"ctx", "redis", "not_held"}
      /\ req[r].err = "nil" /\ RowsBy(r) # {}

\* C14: a release removes the key only if the key still holds the token of
\* the releasing lock: a release step never changes a key that another
\* request holds, so a request whose key expired and was obtained again by
\* another request leaves the new holder's key in place.
C14_ReleaseOnlyOwnToken ==
    [][\A r \in DOMAIN req :
         (req[r].pc = "release" /\ req'[r].pc = "done")
           => \A u \in Users : lock[u].holder # r => lock'[u] = lock[u]]_vars

\* C14's case: a request that had obtained the key released when the key was
\* already held by another request, which still holds it.
C14_Witness ==
    \E r, q \in DOMAIN req :
      /\ r # q /\ Done(r) /\ req[r].got /\ req[r].nrel = 1
      /\ req[r].relsaw = q
      /\ lock[req[r].user].holder = q

\* C13: operations on different users never block one another: the lock key
\* is per user, so an Obtain is only ever sent to wait by a key set for its
\* own user, and an Obtain for a user whose key is free gets the lock at once
\* whatever keys other users hold.
C13_PerUserKey ==
    [][\A r \in DOMAIN req :
         /\ (req[r].pc = "obtain" /\ req'[r].pc = "backoff")
              => lock[req[r].user] # NoLock
         /\ ( /\ req[r].pc \in {"obtain", "backoff"}
              /\ req'[r].pc # req[r].pc
              /\ ~CtxDone(r) /\ redisUp /\ lock[req[r].user] = NoLock )
              => /\ req'[r].got
                 /\ lock'[req[r].user].holder = r
                 /\ \A v \in Users \ {req[r].user} : lock'[v] = lock[v]]_vars

\* C13's case: two requests for two different users are inside their bodies
\* at the same time, each holding the live key of its own user.
C13_Witness ==
    \E r, q \in DOMAIN req :
      /\ req[r].user # req[q].user
      /\ req[r].pc \in {"query", "insert"} /\ req[q].pc \in {"query", "insert"}
      /\ lock[req[r].user].holder = r /\ lock[req[q].user].holder = q

\* C18: every row of the ledger has an amount strictly greater than zero and
\* a kind that is DEPOSIT or WITHDRAW; no row with a zero or negative amount
\* is ever stored.
C18_PositiveRows ==
    \A i \in 1..Len(ledger) :
      /\ ledger[i].amount > 0
      /\ ledger[i].kind \in {"DEPOSIT", "WITHDRAW"}

\* C20: every call appends at most one row and makes no second attempt at
\* the balance query or the INSERT: a call that returned success has written
\* exactly one row, of its own kind, user and amount, and a call that
\* returned any error has written none.
C20_OneRowPerSuccess ==
    \A r \in DOMAIN req :
      /\ Cardinality(RowsBy(r)) <= 1
      /\ req[r].nread <= 1 /\ req[r].nexec <= 1
      /\ Succeeded(r) =>
            \E i \in 1..Len(ledger) :
              /\ RowsBy(r) = {i}
              /\ ledger[i].kind = req[r].kind
              /\ ledger[i].user = req[r].user
              /\ ledger[i].amount * 10 = req[r].amount
      /\ (Done(r) /\ req[r].err # "nil") => RowsBy(r) = {}

\* The part of C20 that does not depend on the stored amount: one row of the
\* call's kind and user after a success, none after an error, and before the
\* call has returned at most one.
OneRowPerCallRounded ==
    \A r \in DOMAIN req :
      /\ Cardinality(RowsBy(r)) <= 1
      /\ Succeeded(r) =>
            \E i \in 1..Len(ledger) :
              /\ RowsBy(r) = {i}
              /\ ledger[i].kind = req[r].kind
              /\ ledger[i].user = req[r].user
              /\ ledger[i].amount = Round2(req[r].amount)
      /\ (Done(r) /\ req[r].err # "nil") => RowsBy(r) = {}

\* C12: each of the five error kinds reaches the caller of a deposit and the
\* caller of a withdrawal as an outcome that differs from the outcome of each
\* of the other four: two calls of the same operation that ended with errors
\* of different kinds were given different answers.
C12_ErrorsDistinguishable ==
    \A r, q \in DOMAIN req :
      ( /\ Done(r) /\ Done(q) /\ req[r].kind = req[q].kind
        /\ req[r].err # "nil" /\ req[q].err # "nil"
        /\ ErrorKind(req[r].err) # ErrorKind(req[q].err) )
        => Response(r) # Response(q)

WaitBounded ==
    [][\A r \in DOMAIN req :
         req[r].pc = "backoff"
           => /\ Timeout - req[r].left <= TTL
              /\ (CtxDone(r) /\ req'[r].pc # "backoff")
                   => /\ req'[r].pc = "done" /\ ~req'[r].got
                      /\ req'[r].err \in {"not_obtained", "obtain_failed"}
                      /\ lock' = lock]_vars

\* C11: with the distributed lock, an Obtain that found the user's key set
\* retries, waits no longer than the TTL, and when the caller's deadline
\* comes with the key still not obtained it returns the contention error
\* (could not obtain lock), without blocking past the deadline.
C11_ContentionByDeadline ==
    [][\A r \in DOMAIN req :
         req[r].pc = "backoff"
           => /\ Timeout - req[r].left <= TTL
              /\ (CtxDone(r) /\ redisUp /\ req'[r].pc # "backoff")
                   => /\ req'[r].pc = "done" /\ ~req'[r].got
                      /\ req'[r].err = "not_obtained"]_vars

\* C15: a key that is set never blocks a user for ever: whether or not its
\* holder releases it (the holder may die, or its release may fail), the key
\* stops holding that request's token within the TTL, and an Obtain made for
\* the user once the key is free gets the lock.
C15_LockExpires ==
    /\ \A u \in Users : \A r \in Reqs :
         (lock[u].holder = r) ~> (lock[u].holder # r)
    /\ [][\A q \in DOMAIN req :
           ( /\ req[q].pc \in {"obtain", "backoff"}
             /\ req'[q].pc # req[q].pc
             /\ ~CtxDone(q) /\ redisUp /\ lock[req[q].user] = NoLock )
             => lock'[req[q].user] = [holder |-> q, ttl |-> TTL]]_vars

\* C15's case: the release of a request failed and left its key set; the key
\* expired and a later request for the same user has obtained it.
C15_Witness ==
    \E r, q \in DOMAIN req :
      /\ r # q /\ Done(r) /\ req[r].got
      /\ req[r].rel \in {"ctx", "redis"} /\ req[r].relsaw = r
      /\ req[q].got /\ lock[req[r].user].holder = q

\* The errors with which withUserLock ends when no lock was obtained.
LockErrors == {"not_obtained", "obtain_failed", "locker_nil"}

\* C25: when the lock is not obtained (contention error or backend error)
\* the guarded body is never run: the call has made no balance query and no
\* INSERT, has written no row, and has issued no release.
C25_NoBodyWithoutLock ==
    \A r \in DOMAIN req :
      (Done(r) /\ req[r].err \in LockErrors)
        => /\ ~req[r].got
           /\ req[r].nread = 0 /\ req[r].nexec = 0 /\ req[r].nrel = 0
           /\ req[r].rel = "-"
           /\ RowsBy(r) = {}

\* C25's case: a call waited on the key of a request that wrote its row, and
\* ended with the contention error.
C25_Witness ==
    \E r, q \in DOMAIN req :
      /\ r # q /\ req[r].user = req[q].user
      /\ Done(r) /\ req[r].err = "not_obtained" /\ req[r].nobtain = 1
      /\ req[q].got /\ RowsBy(q) # {}

\* C26: with the distributed lock, every call that obtained the lock makes
\* exactly one release attempt: the attempt is made by the call that holds
\* the lock, after its body has returned and not before or during the body,
\* and the call's result is handed to the caller only once it was made.
C26_OneReleaseAfterBody ==
    [][\A r \in DOMAIN req : redisEnabled =>
         /\ req'[r].nrel # req[r].nrel
              => /\ req[r].got /\ req[r].pc = "release"
                 /\ req[r].nrel = 0 /\ req'[r].nrel = 1
                 /\ ledger' = ledger
         /\ (req'[r].got /\ req'[r].pc = "done") => req'[r].nrel = 1
         /\ req'[r].pc \in {"obtain", "backoff", "query", "insert", "release"}
              => req'[r].nrel = 0]_vars

\* C26's case: a withdrawal obtained the lock, ran its query and its INSERT,
\* made its one release attempt and returned.
C26_Witness ==
    \E r \in DOMAIN req :
      /\ redisEnabled /\ Done(r) /\ req[r].got /\ req[r].kind = "WITHDRAW"
      /\ req[r].nread = 1 /\ req[r].nexec = 1 /\ req[r].nrel = 1
      /\ req[r].rel = "ok"

\* C22: with distributed locking disabled the lock step succeeds at once and
\* guards nothing: withUserLock runs the body exactly once without any call
\* to the lock backend, also with a locker that was never initialized; it
\* never returns a contention or backend error, and what the call returns is
\* what the body returned.
C22_NoOpLock ==
    [][~redisEnabled =>
         /\ lock' = lock
         /\ \A r \in DOMAIN req :
              /\ req'[r].nobtain = 0 /\ req'[r].nrel = 0 /\ ~req'[r].got
              /\ req'[r].pc \notin {"obtain", "backoff", "release"}
              /\ req'[r].err \notin LockErrors
              /\ (req[r].pc = "idle" /\ req'[r].pc # "idle"
                    /\ req'[r].err # "validation")
                   => req'[r].pc =
                        IF req'[r].kind = "WITHDRAW" THEN "query" ELSE "insert"
              /\ (req'[r].pc = "done" /\ req'[r].err # "validation")
                   => /\ req'[r].nexec + req'[r].nread >= 1
                      /\ req'[r].nexec <= 1 /\ req'[r].nread <= 1
                      /\ (req'[r].err = "nil") = (RowsBy(r)' # {})
                      /\ req'[r].err \in {"nil", "get_balance", "insufficient",
                                          "db_deposit", "db_withdraw"}]_vars

\* C22's case: with the lock disabled and no locker, one withdrawal ran its
\* body and succeeded, and a second one for the same user ran its body and
\* returned the body's error.
C22_Witness ==
    /\ ~redisEnabled /\ ~locker
    /\ \E r, q \in DOMAIN req :
         /\ r # q /\ req[r].user = req[q].user
         /\ Succeeded(r) /\ req[r].kind = "WITHDRAW" /\ req[r].nexec = 1
         /\ Done(q) /\ req[q].err = "insufficient" /\ req[q].nread = 1

\* The rows of user u.
RowsOf(u) == {i \in 1..Len(ledger) : ledger[i].user = u}

\* C24: the balance of a user with no rows is 0, so a withdrawal of any
\* positive amount for a user without rows whose balance query is answered
\* reads 0, fails with the insufficient-funds error and writes nothing: the
\* user still has no rows.
C24_EmptyBalanceZero ==
    [][\A r \in DOMAIN req :
         LET u == req[r].user
         IN  /\ (u \in Users /\ RowsOf(u) = {}) => Balance(u) = 0
             /\ ( /\ req[r].pc = "query" /\ req'[r].pc # "query"
                  /\ req'[r].err # "get_balance"
                  /\ RowsOf(u) = {} )
                  => /\ req[r].amount > 0
                     /\ req'[r].balance = 0
                     /\ req'[r].err = "insufficient"
                     /\ req'[r].pc \in {"done", "release"}
                     /\ RowsOf(u)' = {}]_vars

\* C24's case: a withdrawal for a user without rows has returned the
\* insufficient-funds error, and the user has no rows.
C24_Witness ==
    \E r \in DOMAIN req :
      /\ Done(r) /\ req[r].kind = "WITHDRAW" /\ req[r].amount > 0
      /\ req[r].nread = 1 /\ req[r].err = "insufficient"
      /\ req[r].balance = 0 /\ RowsOf(req[r].user) = {}

\* C27: a withdrawal whose amount is exactly the user's balance succeeds and
\* leaves the balance at 0: a query that is answered with a balance equal to
\* the amount passes the check (the comparison is balance < amount), an
\* INSERT that writes the row of a withdrawal of the whole balance leaves
\* balance 0, and under the distributed lock the balance of the user is
\* still the one the call has read when its INSERT writes.
C27_ExactBalance ==
    [][\A r \in DOMAIN req :
         LET u == req[r].user
         IN  /\ ( /\ req[r].pc = "query" /\ req'[r].pc # "query"
                  /\ req'[r].err # "get_balance"
                  /\ Balance(u) * 10 = req[r].amount )
                  => /\ req'[r].pc = "insert" /\ req'[r].err = "-"
                     /\ req'[r].balance * 10 = req[r].amount
             /\ ( /\ req[r].kind = "WITHDRAW" /\ RowsBy(r)' # RowsBy(r)
                  /\ Balance(u) * 10 = req[r].amount )
                  => /\ Balance(u)' = 0
                     /\ req'[r].err = "nil"
             /\ ( /\ redisEnabled
                  /\ req[r].kind = "WITHDRAW" /\ RowsBy(r)' # RowsBy(r) )
                  => Balance(u) = req[r].balance]_vars

\* C27's case: a withdrawal read a balance equal to its amount, succeeded,
\* and the user's balance is 0.
C27_Witness ==
    \E r \in DOMAIN req :
      /\ Succeeded(r) /\ req[r].kind = "WITHDRAW"
      /\ req[r].balance > 0 /\ req[r].balance * 10 = req[r].amount
      /\ RowsBy(r) # {} /\ Balance(req[r].user) = 0

\* The rows of user u in a table, in the table's order.
UserRows(rows, u) == SelectSeq(rows, LAMBDA e : e.user = u)

\* C28: a deposit or withdrawal for user u leaves the rows and the balance
\* of every other user unchanged: the rows of a user change only in the
\* INSERT of a request for that user, a user whose rows did not change keeps
\* its balance, and the balance that a withdrawal for u reads is the sum
\* over u's rows alone.
C28_OtherUsersUnchanged ==
    [][/\ \A v \in Users :
            /\ UserRows(ledger', v) # UserRows(ledger, v)
                 => \E r \in DOMAIN req :
                      /\ req[r].user = v /\ req[r].pc = "insert"
                      /\ RowsBy(r)' # RowsBy(r)
            /\ UserRows(ledger', v) = UserRows(ledger, v)
                 => Balance(v)' = Balance(v)
       /\ \A r \in DOMAIN req :
            ( /\ req[r].pc = "query" /\ req'[r].pc # "query"
              /\ req'[r].err # "get_balance" )
              => req'[r].balance =
                   SumBalance(UserRows(ledger, req[r].user), req[r].user)]_vars

\* C28's case: a withdrawal for one user read its balance and succeeded
\* while the other user, whose deposit also succeeded, has rows of its own.
C28_Witness ==
    \E r, q \in DOMAIN req :
      /\ req[r].user # req[q].user
      /\ Succeeded(r) /\ req[r].kind = "WITHDRAW" /\ req[r].nread = 1
      /\ Succeeded(q) /\ req[q].kind = "DEPOSIT"
      /\ Balance(req[q].user) > 0 /\ Balance(req[r].user) = 0
      /\ ledger[Len(ledger)].by = r

\* The calls for user u that returned success.
SucceededFor(u) == {r \in DOMAIN req : Succeeded(r) /\ req[r].user = u}

\* C23: for any interleaving of concurrent deposits on one user, in either
\* lock mode, once all of them have returned the balance is the start
\* balance plus the sum of the amounts of the deposits that succeeded,
\* whatever their order; a deposit never reads the balance and never fails
\* with the insufficient-funds error.
C23_DepositsAddUp ==
    /\ \A r \in DOMAIN req :
         req[r].kind = "DEPOSIT"
           => req[r].nread = 0 /\ req[r].err # "insufficient"
    /\ \A u \in Users :
         ( /\ Quiescent
           /\ \A r \in DOMAIN req :
                (Started(r) /\ req[r].user = u) => req[r].kind = "DEPOSIT" )
           => Balance(u) * 10 = StartBalance(u) * 10 + SumAmounts(SucceededFor(u))

\* The same with the amounts as the table stores them, rounded to the cent.
DepositsAddUpRounded ==
    \A u \in Users :
      ( /\ Quiescent
        /\ \A r \in DOMAIN req :
             (Started(r) /\ req[r].user = u) => req[r].kind = "DEPOSIT" )
        => /\ \A r \in SucceededFor(u) : Cardinality(RowsBy(r)) = 1
           /\ Balance(u) - StartBalance(u) =
                SumBalance(SelectSeq(ledger, LAMBDA e : e.by # 0), u)
           /\ \A i \in RowsOf(u) :
                ledger[i].by # 0
                  => ledger[i].amount = Round2(req[ledger[i].by].amount)

\* The outcomes that the Obtain of request r has ended in.
AcquireOutcomes(r) ==
    {o \in {"Held", "Contended", "Unavailable"} :
       \/ o = "Held" /\ req[r].got
       \/ o = "Contended" /\ Done(r) /\ req[r].err = "not_obtained"
       \/ o = "Unavailable" /\ Done(r)
            /\ req[r].err \in {"obtain_failed", "locker_nil"}}

\* C21: every Obtain ends in exactly one of the outcomes Held, Contended
\* and Unavailable (and has none of them while it is still trying), and
\* every deposit or withdrawal that was started eventually returns a result
\* to its caller, also when the key of its user stays held by other requests
\* for the whole of its wait.
C21_AcquireEndsCallReturns ==
    /\ [](\A r \in DOMAIN req :
            /\ req[r].pc \in {"idle", "obtain", "backoff"}
                 => AcquireOutcomes(r) = {}
            /\ (redisEnabled /\ req[r].nobtain = 1
                  /\ req[r].pc \notin {"obtain", "backoff"})
                 => Cardinality(AcquireOutcomes(r)) = 1)
    /\ \A r \in Reqs : Started(r) ~> Done(r)

\* C21's case: a call waited for the key while its ctx ran out and has
\* returned, and the request it waited for still holds the key.
C21_Witness ==
    \E r, q \in DOMAIN req :
      /\ r # q /\ Done(r) /\ req[r].nobtain = 1 /\ ~req[r].got
      /\ req[r].err \in {"not_obtained", "obtain_failed"}
      /\ redisUp /\ lock[req[r].user].holder = q
      /\ req[q].pc \in {"query", "insert", "release"}
====
